---- MODULE Spec2Model ----
(***************************************************************************)
(* Model of spyder/workers/updates.py: the update-check worker             *)
(* (WorkerUpdates) and the installer download worker                       *)
(* (WorkerDownloadInstaller).                                              *)
(*                                                                         *)
(* Python strings are sequences of one-character strings, so that the      *)
(* substring tests, split, replace and the version parsing are computed.   *)
(***************************************************************************)
EXTENDS Integers, Sequences, FiniteSets, TLC

\* ------------------------------------------------------------------ bounds
\* entries of the longest fetched catalog document
MaxLen == 2
\* longest pre-supplied release list
MaxSupplied == 1
\* runs of start() on one WorkerUpdates object
MaxRuns == 2
\* WorkerDownloadInstaller objects constructed in one slot
MaxDownloads == 2
\* bytes of the largest installer
MaxSize == 3
\* bytes that urlretrieve reads per block
BlockSize == 2
\* download workers that run at the same time
NumWorkers == 2

\* Python None and a not yet assigned attribute; every Python str of the model
\* is a sequence, so these are sequences too
None == <<"None">>
Unset == <<"unset">>

\* ------------------------------------------------------------- characters
DigitChars == {"0", "1", "2", "3", "4", "5", "6", "7", "8", "9"}

LetterChars ==
  {"a", "b", "c", "d", "e", "f", "g", "h", "i", "j", "k", "l", "m",
   "n", "o", "p", "q", "r", "s", "t", "u", "v", "w", "x", "y", "z",
   "A", "B", "C", "D", "E", "F", "G", "H", "I", "J", "K", "L", "M",
   "N", "O", "P", "Q", "R", "S", "T", "U", "V", "W", "X", "Y", "Z"}

DigitVal(c) ==
  CASE c = "0" -> 0 [] c = "1" -> 1 [] c = "2" -> 2 [] c = "3" -> 3
    [] c = "4" -> 4 [] c = "5" -> 5 [] c = "6" -> 6 [] c = "7" -> 7
    [] c = "8" -> 8 [] c = "9" -> 9

\* Python: sub in s
Contains(s, sub) ==
  \E i \in 0..(Len(s) - Len(sub)) : SubSeq(s, i + 1, i + Len(sub)) = sub

\* Python: s.replace(ch, '') for a one-character ch
RemoveChar(s, ch) == SelectSeq(s, LAMBDA c : c # ch)

\* Python: s.split(sep) for a one-character sep
RECURSIVE Split(_, _)
Split(s, sep) ==
  IF \A i \in 1..Len(s) : s[i] # sep
  THEN <<s>>
  ELSE LET k == CHOOSE i \in 1..Len(s) :
                  s[i] = sep /\ \A j \in 1..(i - 1) : s[j] # sep
       IN  <<SubSeq(s, 1, k - 1)>> \o Split(SubSeq(s, k + 1, Len(s)), sep)

\* Python: list(reversed(l))
Reversed(l) == [i \in 1..Len(l) |-> l[Len(l) + 1 - i]]

HasLetter(s) == \E i \in 1..Len(s) : s[i] \in LetterChars

\* ---------------------------------------------------------------- versions
V120 == <<"1", ".", "2", ".", "0">>
V120rc1 == <<"1", ".", "2", ".", "0", "r", "c", "1">>
V130 == <<"1", ".", "3", ".", "0">>
V130dev0 == <<"1", ".", "3", ".", "0", "d", "e", "v", "0">>
V20 == <<"2", ".", "0">>

\* spyder.__version__ of the running application
__version__ == V120

\* versions that releases carry
VersionStrings == {V120, V120rc1, V130, V20}

\* the version argument of WorkerUpdates; the empty string selects __version__
VersionArgs == {<<>>, V120rc1, V130, V130dev0}

\* spyder.config.base.is_stable_version: no pre-release or development
\* qualifier in the version string
is_stable_version(v) == ~HasLetter(v)

\* leading decimal number of a string (0 when it has no leading digit)
RECURSIVE LeadingNumber(_, _)
LeadingNumber(s, acc) ==
  IF Len(s) = 0 \/ s[1] \notin DigitChars
  THEN acc
  ELSE LeadingNumber(Tail(s), 10 * acc + DigitVal(s[1]))

RECURSIVE TakeLetters(_)
TakeLetters(s) ==
  IF Len(s) = 0 \/ s[1] \notin LetterChars
  THEN <<>>
  ELSE <<s[1]>> \o TakeLetters(Tail(s))

\* rank of a pre-release qualifier: dev < a < b < rc < (final)
PhaseRank(q) ==
  CASE q = <<>> -> 4
    [] q = <<"r", "c">> -> 3
    [] q = <<"b">> -> 2
    [] q = <<"a">> -> 1
    [] OTHER -> 0

\* the numeric release components of a version string
RECURSIVE ReleaseNums(_)
ReleaseNums(parts) ==
  IF Len(parts) = 0 \/ Len(parts[1]) = 0 \/ parts[1][1] \notin DigitChars
  THEN <<>>
  ELSE <<LeadingNumber(parts[1], 0)>> \o ReleaseNums(Tail(parts))

\* the qualifier (letters and number) of a version string
Qualifier(v) ==
  LET from == CHOOSE i \in 1..(Len(v) + 1) :
                /\ i = Len(v) + 1 \/ v[i] \in LetterChars
                /\ \A j \in 1..(i - 1) : v[j] \notin LetterChars
      rest == SubSeq(v, from, Len(v))
      q    == TakeLetters(rest)
  IN  [rank |-> PhaseRank(q),
       num  |-> LeadingNumber(SubSeq(rest, Len(q) + 1, Len(rest)), 0)]

NumAt(ns, i) == IF i <= Len(ns) THEN ns[i] ELSE 0

\* the parsed form of a version string
VersionKey(v) == [nums |-> ReleaseNums(Split(v, ".")), q |-> Qualifier(v)]

\* every string that is compared as a version, parsed once
ParsedVersion == [v \in VersionStrings \cup {V130dev0} |-> VersionKey(v)]

\* version precedence: numeric components first, then the qualifier
VersionLess(a, b) ==
  LET ka == ParsedVersion[a]
      kb == ParsedVersion[b]
      n  == IF Len(ka.nums) > Len(kb.nums) THEN Len(ka.nums) ELSE Len(kb.nums)
  IN  \/ \E i \in 1..n :
            /\ NumAt(ka.nums, i) < NumAt(kb.nums, i)
            /\ \A j \in 1..(i - 1) : NumAt(ka.nums, j) = NumAt(kb.nums, j)
      \/ /\ \A i \in 1..n : NumAt(ka.nums, i) = NumAt(kb.nums, i)
         /\ \/ ka.q.rank < kb.q.rank
            \/ ka.q.rank = kb.q.rank /\ ka.q.num < kb.q.num

\* spyder.utils.programs.check_version(actver, version, '<')
check_version(actver, version) == VersionLess(actver, version)

\* --------------------------------------------------------- remote catalogs
\* hosting-platform release tags, e.g. "v1.2.0"
Tag(v) == <<"v">> \o v

\* package-repository entries, e.g. "spyder-1.2.0-py0"
SpyderItem(v) == <<"s", "p", "y", "d", "e", "r", "-">> \o v \o <<"-", "p", "y", "0">>

SiblingItem ==
  <<"s", "p", "y", "d", "e", "r", "-", "k", "e", "r", "n", "e", "l", "s",
    "-", "1", ".", "0", ".", "0", "-", "p", "y", "0">>

OtherItem == <<"n", "u", "m", "p", "y", "-", "1", ".", "0", ".", "0", "-", "p", "y", "0">>

\* all sequences over S of length at most n
SeqUpTo(S, n) == UNION {[1..k -> S] : k \in 0..n}

ReleaseLists == SeqUpTo(VersionStrings, MaxSupplied)

GithubData == SeqUpTo({Tag(v) : v \in VersionStrings}, MaxLen)

\* the package repository carries stable builds, sibling packages and
\* other packages
AnacondaData ==
  SeqUpTo({SpyderItem(v) : v \in {V120, V130}} \cup {SiblingItem, OtherItem},
          MaxLen)

\* what the remote source answers to one request: urlopen raises HTTPError,
\* URLError or another exception; page.read() raises; the body is not JSON;
\* the JSON has not the expected shape; or the document is well formed
Failures == {"HTTPError", "URLError", "Exception", "read_error", "bad_json",
             "bad_shape"}

Responses(anaconda) ==
  [kind : Failures, items : {<<>>}] \cup
  [kind : {"ok"}, items : IF anaconda THEN AnacondaData ELSE GithubData]

\* ------------------------------------------------------------- messages
MsgRetrieve == <<"Unable to retrieve information.">>
MsgConnect == <<"Unable to connect to the internet.">>
MsgCheck == <<"Unable to check for updates.">>

\* ------------------------------------------------------------ WorkerUpdates
VARIABLES
  worker,         \* the WorkerUpdates object (its attributes)
  is_anaconda,    \* spyder.config.utils.is_anaconda()
  wu_listener,    \* the receiver of sig_ready still exists
  wu_runs,        \* number of completed calls of start()
  wu_last         \* what the last call of start() did

wu_vars == <<worker, is_anaconda, wu_listener, wu_runs, wu_last>>

VARIABLES
  fs,        \* the cache root: per name the kind of the entry and the state
             \* of the installer file inside a directory
  env,       \* os.name / sys.platform and the installed modules
  dl,        \* per slot the WorkerDownloadInstaller object, the position of
             \* its start() and what it did so far
  dl_slots,  \* the slots in use
  dl_made    \* per slot the number of workers constructed

dl_vars == <<fs, env, dl, dl_slots, dl_made>>

vars == <<wu_vars, dl_vars>>

\* WorkerUpdates.__init__
WorkerUpdates_init(startup, version, releases) ==
  [error |-> None,
   latest_release |-> None,
   startup |-> startup,
   releases |-> releases,
   version |-> IF version = <<>> THEN __version__ ELSE version,
   update_available |-> Unset]

\* the filter without the substring clause for a pre-release version
FilterReleases_unstable_only(version, releases) ==
  IF is_stable_version(version)
  THEN SelectSeq(releases, is_stable_version)
  ELSE SelectSeq(releases, LAMBDA r : ~is_stable_version(r))

\* the release filter of check_update_available (lines 72-76)
FilterReleases(version, releases) ==
  IF is_stable_version(version)
  THEN SelectSeq(releases, is_stable_version)
  ELSE SelectSeq(releases,
                 LAMBDA r : ~is_stable_version(r) \/ Contains(version, r))

\* check_update_available taking the first release of the filtered list
check_update_available_first(w) ==
  IF Contains(w.version, <<"d", "e", "v">>)
  THEN [raised |-> FALSE, update |-> FALSE, latest |-> w.latest_release]
  ELSE LET releases == FilterReleases(w.version, w.releases)
       IN  IF Len(releases) = 0
           THEN [raised |-> TRUE, update |-> FALSE, latest |-> None]
           ELSE [raised |-> FALSE,
                 update |-> check_version(w.version, releases[1]),
                 latest |-> releases[1]]

\* WorkerUpdates.check_update_available; raised = IndexError of releases[-1]
check_update_available(w) ==
  IF Contains(w.version, <<"d", "e", "v">>)
  THEN [raised |-> FALSE, update |-> FALSE, latest |-> w.latest_release]
  ELSE LET releases == FilterReleases(w.version, w.releases)
       IN  IF Len(releases) = 0
           THEN [raised |-> TRUE, update |-> FALSE, latest |-> None]
           ELSE LET latest_release == releases[Len(releases)]
                IN  [raised |-> FALSE,
                     update |-> check_version(w.version, latest_release),
                     latest |-> latest_release]

\* re.search(r'spyder-[a-zA-Z]', item)
MatchesSibling(item) ==
  \E i \in 1..(Len(item) - 7) :
     /\ SubSeq(item, i, i + 6) = <<"s", "p", "y", "d", "e", "r", "-">>
     /\ item[i + 7] \in LetterChars

\* the release list built from the package-repository document
AnacondaReleases(items) ==
  LET keep == SelectSeq(items,
                LAMBDA item : /\ Contains(item, <<"s", "p", "y", "d", "e", "r">>)
                              /\ ~MatchesSibling(item))
  IN  [i \in 1..Len(keep) |-> Split(keep[i], "-")[2]]

\* the release list built from the hosting-platform document
GithubReleases(items) ==
  Reversed([i \in 1..Len(items) |-> RemoveChar(items[i], "v")])

\* self.releases after the "if self.releases is None" blocks
FetchedReleases(w, anaconda, kind, items) ==
  IF w.releases # None
  THEN w.releases
  ELSE IF anaconda
       THEN IF kind = "ok" THEN AnacondaReleases(items) ELSE <<>>
       ELSE IF kind = "ok" THEN GithubReleases(items) ELSE None

\* a tail of start() that signals every outcome
Signalled_always(startup, error_msg) == TRUE

\* the tail of start(): store the error and emit sig_ready unless suppressed
Signalled(startup, error_msg) == ~(startup /\ error_msg # None)

\* lines 132-135: evaluate the releases and store the result
Evaluated(w, result) ==
  IF result.raised
  THEN [w |-> w, error_msg |-> MsgRetrieve, cause |-> "no_releases"]
  ELSE [w |-> [w EXCEPT !.update_available = result.update,
                        !.latest_release = result.latest],
        error_msg |-> None, cause |-> "none"]

\* lines 110-135: the document was read and parsed as JSON
Parsed(w, wasNone, kind) ==
  IF kind = "bad_shape" /\ wasNone
  THEN [w |-> w, error_msg |-> MsgRetrieve, cause |-> "malformed"]
  ELSE Evaluated(w, check_update_available(w))

\* lines 101-142 for a worker whose result attributes were reset
Requested(w, anaconda, resp) ==
  CASE resp.kind = "HTTPError" ->
         [w |-> w, error_msg |-> MsgRetrieve, cause |-> "http"]
    [] resp.kind = "URLError" ->
         [w |-> w, error_msg |-> MsgConnect, cause |-> "unreachable"]
    [] resp.kind = "Exception" ->
         [w |-> w, error_msg |-> MsgCheck, cause |-> "other"]
    [] resp.kind = "read_error" ->
         [w |-> w, error_msg |-> MsgRetrieve, cause |-> "read_error"]
    [] resp.kind = "bad_json" ->
         [w |-> w, error_msg |-> MsgRetrieve, cause |-> "malformed"]
    [] OTHER ->
         Parsed([w EXCEPT !.releases =
                    FetchedReleases(w, anaconda, resp.kind, resp.items)],
                w.releases = None, resp.kind)

\* a start() that does not reset latest_release (line 97 left out)
StartBody_keep_latest(w0, anaconda, resp) ==
  Requested([w0 EXCEPT !.update_available = FALSE], anaconda, resp)

\* the body of start() up to the end of the try block; the result is the
\* worker, the local error_msg and the cause of the error
StartBody(w0, anaconda, resp) ==
  Requested([w0 EXCEPT !.update_available = FALSE,
                       !.latest_release = __version__],
            anaconda, resp)

\* network requests made by one call of start(): urlopen is called whether
\* or not self.releases was supplied
StartRequests(w0) == 1

\* WorkerUpdates.start
WU_start ==
  /\ wu_runs < MaxRuns
  /\ \E resp \in Responses(is_anaconda) :
       \E r \in {StartBody(worker, is_anaconda, resp)} :
       LET emit == Signalled(worker.startup, r.error_msg)
       IN  /\ worker' = IF emit THEN [r.w EXCEPT !.error = r.error_msg]
                                ELSE r.w
           /\ wu_last' = [requests |-> StartRequests(worker),
                          emits |-> IF emit THEN 1 ELSE 0,
                          delivered |-> IF emit /\ wu_listener THEN 1 ELSE 0,
                          error_msg |-> r.error_msg,
                          cause |-> r.cause,
                          before |-> worker]
  /\ wu_runs' = wu_runs + 1
  /\ UNCHANGED <<is_anaconda, wu_listener, dl_vars>>

\* the receiver of sig_ready is torn down
WU_teardown ==
  /\ wu_listener
  /\ wu_listener' = FALSE
  /\ UNCHANGED <<worker, is_anaconda, wu_runs, wu_last, dl_vars>>

WU_Next == WU_start \/ WU_teardown


\* -------------------------------------------------- WorkerDownloadInstaller
MsgInstallerRetrieve == <<"Unable to retrieve installer information.">>
MsgDownload == <<"Unable to download the installer.">>

\* releases that a download is asked for
Targets == {V130, V20}

\* a subdirectory left in the cache by an earlier update cycle
StaleName == V120rc1

\* a plain file that something else left in the cache root
StrayName == <<"t", "m", "p">>

\* names that can appear in <tmpdir>/spyder/updates
CacheNames == {__version__, StaleName, StrayName} \cup Targets

Slots == 1..NumWorkers

NoEntry == [kind |-> "none", installer |-> "absent"]
EmptyDir == [kind |-> "dir", installer |-> "absent"]

\* is_module_installed('numpy') or is_module_installed('pandas')
is_full_installer(e) == e.numpy \/ e.pandas

\* lines 204-208: the installer file name
InstallerName(e) ==
  IF e.os_name = "nt"
  THEN IF is_full_installer(e) THEN "Spyder_64bit_full.exe"
                               ELSE "Spyder_64bit_lite.exe"
  ELSE IF is_full_installer(e) THEN "Spyder.dmg" ELSE "Spyder-Lite.dmg"

\* osp.join(installer_dir_path, name)
InstallerPath(release, e) == <<release, InstallerName(e)>>

\* WorkerDownloadInstaller.__init__
WorkerDownloadInstaller_init(latest_release_version) ==
  [latest_release_version |-> latest_release_version,
   error |-> None,
   cancelled |-> FALSE,
   installer_path |-> None,
   pc |-> "start",
   listing |-> {},
   size |-> 0, remaining |-> 0, read |-> 0, blocknum |-> 0,
   deleted |-> FALSE,
   requests |-> 0,
   progress |-> <<>>,
   ready |-> <<>>,
   outcome |-> "running",
   existed |-> FALSE,
   polled |-> FALSE,
   blocked |-> None]

\* a tail of start() that returns on an error without emitting sig_ready
Completed_silent_error(d, error_msg) ==
  [d EXCEPT !.error = error_msg,
            !.ready = IF error_msg = None
                      THEN Append(@, [path |-> d.installer_path,
                                      error |-> error_msg,
                                      delivered |-> ~d.deleted])
                      ELSE @,
            !.outcome = IF error_msg = None THEN "success" ELSE "error",
            !.pc = "done"]

\* lines 248-252: store the error and emit sig_ready(installer_path); a
\* RuntimeError of emit is swallowed
Completed(d, error_msg) ==
  [d EXCEPT !.error = error_msg,
            !.ready = Append(@, [path |-> d.installer_path,
                                 error |-> error_msg,
                                 delivered |-> ~d.deleted]),
            !.outcome = IF error_msg = None THEN "success" ELSE "error",
            !.pc = "done"]

\* lines 212-216: create the directories
DL_prepare(t) ==
  /\ t \in dl_slots
  /\ dl[t].pc = "start"
  /\ LET release == dl[t].latest_release_version
     IN  IF fs[release].kind = "file"
         THEN \* os.makedirs raises FileExistsError
              /\ dl' = [dl EXCEPT ![t] = Completed(@, MsgDownload)]
              /\ UNCHANGED fs
         ELSE /\ fs' = IF fs[release].kind = "none"
                       THEN [fs EXCEPT ![release] = EmptyDir]
                       ELSE fs
              /\ dl' = [dl EXCEPT ![t].pc = "listdir"]
  /\ UNCHANGED <<env, dl_slots, dl_made, wu_vars>>

\* line 217: os.listdir(dir_path), evaluated once before the loop
DL_listdir(t) ==
  /\ t \in dl_slots
  /\ dl[t].pc = "listdir"
  /\ dl' = [dl EXCEPT ![t].pc = "sweep",
                      ![t].listing = {n \in CacheNames : fs[n].kind # "none"}]
  /\ UNCHANGED <<fs, env, dl_slots, dl_made, wu_vars>>

\* a sweep that spares the requested release only
Protected_release_only(release) == {release}

\* line 218: the entries that the sweep leaves alone
Protected(release) == {__version__, release}

\* lines 217-220: one iteration of the sweep loop
DL_sweep(t) ==
  /\ t \in dl_slots
  /\ dl[t].pc = "sweep"
  /\ \E file \in dl[t].listing :
       IF file \in Protected(dl[t].latest_release_version)
       THEN /\ dl' = [dl EXCEPT ![t].listing = @ \ {file}]
            /\ UNCHANGED fs
       ELSE IF fs[file].kind = "file"
       THEN \* os.remove deletes a plain file
            /\ fs' = [fs EXCEPT ![file] = NoEntry]
            /\ dl' = [dl EXCEPT ![t].listing = @ \ {file}]
       ELSE \* os.remove raises on a directory (IsADirectoryError or
            \* PermissionError) and on a missing entry (FileNotFoundError)
            /\ dl' = [dl EXCEPT ![t] =
                        Completed([@ EXCEPT !.blocked = file], MsgDownload)]
            /\ UNCHANGED fs
  /\ UNCHANGED <<env, dl_slots, dl_made, wu_vars>>

\* lines 222-230: the existence check; _progress_reporter(1, 1) lacks the
\* third argument and raises TypeError before its body runs
DL_check(t) ==
  /\ t \in dl_slots
  /\ dl[t].pc = "sweep"
  /\ dl[t].listing = {}
  /\ LET release == dl[t].latest_release_version
         isfile == fs[release].kind = "dir" /\ fs[release].installer # "absent"
         d == [dl[t] EXCEPT !.installer_path = InstallerPath(release, env),
                            !.existed = isfile]
     IN  dl' = [dl EXCEPT ![t] = IF isfile
                                 THEN Completed(d, MsgDownload)
                                 ELSE [d EXCEPT !.pc = "urlopen"]]
  /\ UNCHANGED <<fs, env, dl_slots, dl_made, wu_vars>>

\* what the server sends: the Content-Length (-1 when the header is missing)
\* and the bytes it delivers before the stream ends
Transfers ==
  {tr \in [size : -1..MaxSize, payload : 0..MaxSize] :
     tr.size >= 0 => tr.payload <= tr.size}

\* urlretrieve: urlopen(url), then open(filename, 'wb')
DL_urlopen(t) ==
  /\ t \in dl_slots
  /\ dl[t].pc = "urlopen"
  /\ LET release == dl[t].latest_release_version
         d == [dl[t] EXCEPT !.requests = @ + 1]
     IN  \/ /\ dl' = [dl EXCEPT ![t] = Completed(d, MsgInstallerRetrieve)]
            /\ UNCHANGED fs
         \/ /\ dl' = [dl EXCEPT ![t] = Completed(d, MsgConnect)]
            /\ UNCHANGED fs
         \/ /\ dl' = [dl EXCEPT ![t] = Completed(d, MsgDownload)]
            /\ UNCHANGED fs
         \/ \E tr \in Transfers :
              IF fs[release].kind = "dir"
              THEN /\ fs' = [fs EXCEPT ![release].installer = "partial"]
                   /\ dl' = [dl EXCEPT ![t] =
                               [d EXCEPT !.pc = "report",
                                         !.size = tr.size,
                                         !.remaining = tr.payload,
                                         !.read = 0,
                                         !.blocknum = 0]]
              ELSE \* open raises FileNotFoundError
                   /\ dl' = [dl EXCEPT ![t] = Completed(d, MsgDownload)]
                   /\ UNCHANGED fs
  /\ UNCHANGED <<env, dl_slots, dl_made, wu_vars>>

\* lines 191-193: the progress value
Progress(block_number, read_size, total_size) ==
  IF total_size > 0 THEN block_number * read_size ELSE 0

\* a cancellation handler that leaves the file in place
RemoveInstaller_keep(f, release) == f

\* line 239: os.remove(self.installer_path)
RemoveInstaller(f, release) == [f EXCEPT ![release].installer = "absent"]

\* lines 237-240: the handler of UpdateDownloadCancelledException; escaped
\* is the FileNotFoundError of os.remove leaving start()
Cancelled(d, present) ==
  [d EXCEPT !.outcome = IF d.installer_path # None /\ ~present
                        THEN "escaped" ELSE "cancelled",
            !.pc = "done"]

\* a reporter that emits the progress before it looks at the flag
Reported_emit_first(d) ==
  IF d.deleted
  THEN d.progress
  ELSE Append(d.progress, <<Progress(d.blocknum, BlockSize, d.size), d.size>>)

\* lines 194-196: the progress notifications after one callback; nothing is
\* emitted when the flag is set, because the exception is raised first, nor
\* when emit itself raises
Reported(d) ==
  IF d.cancelled \/ d.deleted
  THEN d.progress
  ELSE Append(d.progress, <<Progress(d.blocknum, BlockSize, d.size), d.size>>)

\* _progress_reporter called by urlretrieve after a block (lines 189-196)
DL_report(t) ==
  /\ t \in dl_slots
  /\ dl[t].pc = "report"
  /\ LET release == dl[t].latest_release_version
         present == fs[release].kind = "dir" /\ fs[release].installer # "absent"
         d == [dl[t] EXCEPT !.polled = @ \/ dl[t].cancelled,
                            !.progress = Reported(dl[t])]
     IN  IF d.cancelled
         THEN /\ dl' = [dl EXCEPT ![t] = Cancelled(d, present)]
              /\ fs' = IF d.installer_path # None /\ present
                       THEN RemoveInstaller(fs, release)
                       ELSE fs
         ELSE IF d.deleted
         THEN \* sig_download_progress.emit raises RuntimeError
              /\ dl' = [dl EXCEPT ![t] = Completed(d, MsgDownload)]
              /\ UNCHANGED fs
         ELSE /\ dl' = [dl EXCEPT ![t] = [d EXCEPT !.pc = "read"]]
              /\ UNCHANGED fs
  /\ UNCHANGED <<env, dl_slots, dl_made, wu_vars>>

Min(a, b) == IF a < b THEN a ELSE b

\* urlretrieve: fp.read(bs), write the block, or leave the loop at the end
\* of the stream and compare what was read with the Content-Length
DL_read(t) ==
  /\ t \in dl_slots
  /\ dl[t].pc = "read"
  /\ LET release == dl[t].latest_release_version
         d == dl[t]
         n == Min(BlockSize, d.remaining)
     IN  \/ \* the connection breaks while reading
            /\ dl' = [dl EXCEPT ![t] = Completed(d, MsgDownload)]
            /\ UNCHANGED fs
         \/ /\ n > 0
            /\ dl' = [dl EXCEPT ![t].read = @ + n,
                                ![t].remaining = @ - n,
                                ![t].blocknum = @ + 1,
                                ![t].pc = "report"]
            /\ UNCHANGED fs
         \/ /\ n = 0
            /\ IF d.size >= 0 /\ d.read < d.size
               THEN \* ContentTooShortError, a URLError
                    /\ dl' = [dl EXCEPT ![t] = Completed(d, MsgConnect)]
                    /\ UNCHANGED fs
               ELSE /\ dl' = [dl EXCEPT ![t] = Completed(d, None)]
                    /\ fs' = IF /\ fs[release].kind = "dir"
                                /\ fs[release].installer = "partial"
                             THEN [fs EXCEPT ![release].installer = "complete"]
                             ELSE fs
  /\ UNCHANGED <<env, dl_slots, dl_made, wu_vars>>

\* the host sets worker.cancelled = True
DL_cancel(t) ==
  /\ t \in dl_slots
  /\ dl[t].pc # "done"
  /\ ~dl[t].cancelled
  /\ dl' = [dl EXCEPT ![t].cancelled = TRUE]
  /\ UNCHANGED <<fs, env, dl_slots, dl_made, wu_vars>>

\* the host deletes the worker object while it runs
DL_delete(t) ==
  /\ t \in dl_slots
  /\ dl[t].pc # "done"
  /\ ~dl[t].deleted
  /\ dl' = [dl EXCEPT ![t].deleted = TRUE]
  /\ UNCHANGED <<fs, env, dl_slots, dl_made, wu_vars>>

\* the host constructs the next worker once the previous one has ended
DL_new(t) ==
  /\ t \in dl_slots
  /\ dl[t].pc = "done"
  /\ dl_made[t] < MaxDownloads
  /\ \E release \in Targets :
       dl' = [dl EXCEPT ![t] = WorkerDownloadInstaller_init(release)]
  /\ dl_made' = [dl_made EXCEPT ![t] = @ + 1]
  /\ UNCHANGED <<fs, env, dl_slots, wu_vars>>

\* environments of the download runs: os.name with the platform it is found
\* on, and the two modules that select the full installer
DownloadEnvs ==
  {[os_name |-> "nt", platform |-> "windows", numpy |-> TRUE, pandas |-> FALSE],
   [os_name |-> "nt", platform |-> "windows", numpy |-> FALSE, pandas |-> FALSE],
   [os_name |-> "posix", platform |-> "macos", numpy |-> FALSE, pandas |-> TRUE],
   [os_name |-> "posix", platform |-> "macos", numpy |-> FALSE, pandas |-> FALSE],
   [os_name |-> "posix", platform |-> "linux", numpy |-> TRUE, pandas |-> TRUE]}

\* cache roots the workers can find: an entry named after the running
\* version (its directory with the installer, or a plain file), a stale
\* directory and a stray file, each optional
InitialCaches ==
  {f \in [CacheNames -> {NoEntry, EmptyDir,
                         [kind |-> "dir", installer |-> "complete"],
                         [kind |-> "file", installer |-> "absent"]}] :
     /\ f[__version__] \in {NoEntry, [kind |-> "dir", installer |-> "complete"],
                            [kind |-> "file", installer |-> "absent"]}
     /\ f[StaleName] \in {NoEntry, [kind |-> "dir", installer |-> "complete"]}
     /\ f[StrayName] \in {NoEntry, [kind |-> "file", installer |-> "absent"]}
     /\ \A r \in Targets : f[r] = NoEntry}

\* a WorkerUpdates object with any arguments; no download worker exists
WU_Init ==
  /\ \E startup \in BOOLEAN, version \in VersionArgs,
        releases \in ReleaseLists \cup {None} :
       worker = WorkerUpdates_init(startup, version, releases)
  /\ is_anaconda \in BOOLEAN
  /\ wu_listener = TRUE
  /\ wu_runs = 0
  /\ wu_last = [requests |-> 0, emits |-> 0, delivered |-> 0,
                error_msg |-> None, cause |-> "none", before |-> worker]
  /\ fs = [n \in CacheNames |-> NoEntry]
  /\ env = [os_name |-> "nt", platform |-> "windows",
            numpy |-> TRUE, pandas |-> FALSE]
  /\ dl = [t \in Slots |-> WorkerDownloadInstaller_init(V130)]
  /\ dl_slots = {}
  /\ dl_made = [t \in Slots |-> 0]

\* one download worker at a time; the update worker is not started
DL_Init ==
  /\ worker = WorkerUpdates_init(FALSE, <<>>, None)
  /\ is_anaconda = FALSE
  /\ wu_listener = TRUE
  /\ wu_runs = 0
  /\ wu_last = [requests |-> 0, emits |-> 0, delivered |-> 0,
                error_msg |-> None, cause |-> "none", before |-> worker]
  /\ fs \in InitialCaches
  /\ env \in DownloadEnvs
  /\ dl_slots = {1}
  /\ \E release \in Targets :
       dl = [t \in Slots |-> WorkerDownloadInstaller_init(release)]
  /\ dl_made = [t \in Slots |-> IF t \in dl_slots THEN 1 ELSE 0]

DL_Next ==
  \E t \in Slots :
     \/ DL_prepare(t)
     \/ DL_listdir(t)
     \/ DL_sweep(t)
     \/ DL_check(t)
     \/ DL_urlopen(t)
     \/ DL_report(t)
     \/ DL_read(t)
     \/ DL_cancel(t)
     \/ DL_delete(t)
     \/ DL_new(t)

\* two download workers for different releases, started once each and
\* running at the same time on a cache root that holds at most a stray file
DLC_Init ==
  /\ worker = WorkerUpdates_init(FALSE, <<>>, None)
  /\ is_anaconda = FALSE
  /\ wu_listener = TRUE
  /\ wu_runs = 0
  /\ wu_last = [requests |-> 0, emits |-> 0, delivered |-> 0,
                error_msg |-> None, cause |-> "none", before |-> worker]
  /\ fs \in {f \in InitialCaches :
                f[__version__] = NoEntry /\ f[StaleName] = NoEntry}
  /\ env = [os_name |-> "nt", platform |-> "windows",
            numpy |-> TRUE, pandas |-> FALSE]
  /\ dl_slots = {1, 2}
  /\ \E r1 \in Targets, r2 \in Targets :
       /\ r1 # r2
       /\ dl = [t \in Slots |-> WorkerDownloadInstaller_init(
                                   IF t = 1 THEN r1 ELSE r2)]
  /\ dl_made = [t \in Slots |-> IF t \in dl_slots THEN 1 ELSE 0]

DLC_Next ==
  \E t \in Slots :
     \/ DL_prepare(t)
     \/ DL_listdir(t)
     \/ DL_sweep(t)
     \/ DL_check(t)
     \/ DL_urlopen(t)
     \/ DL_report(t)
     \/ DL_read(t)
     \/ DL_cancel(t)
     \/ DL_delete(t)

\* line 201: the cache lives in the temporary directory of the system, where
\* something other than the worker can remove the file of a running download
TMP_clean(t) ==
  /\ t \in dl_slots
  /\ dl[t].pc \in {"report", "read"}
  /\ fs[dl[t].latest_release_version].kind = "dir"
  /\ fs[dl[t].latest_release_version].installer # "absent"
  /\ fs' = [fs EXCEPT ![dl[t].latest_release_version].installer = "absent"]
  /\ UNCHANGED <<env, dl, dl_slots, dl_made, wu_vars>>

DLT_Next ==
  \E t \in Slots :
     \/ DL_prepare(t)
     \/ DL_listdir(t)
     \/ DL_sweep(t)
     \/ DL_check(t)
     \/ DL_urlopen(t)
     \/ DL_report(t)
     \/ DL_read(t)
     \/ DL_cancel(t)
     \/ DL_delete(t)
     \/ DL_new(t)
     \/ TMP_clean(t)

SpecUpdates == WU_Init /\ [][WU_Next]_vars

SpecTmpCleaned == DL_Init /\ [][DLT_Next]_vars

SpecConcurrent == DLC_Init /\ [][DLC_Next]_vars

SpecDownload == DL_Init /\ [][DL_Next]_vars

\* ------------------------------------------------------------------ claims
InstallerPresent(t) ==
  LET release == dl[t].latest_release_version
  IN  fs[release].kind = "dir" /\ fs[release].installer # "absent"

\* C1: when the installer file exists at the existence check, the run makes
\* no network request, emits exactly one progress notification that reports
\* full completion, and emits sig_ready with the existing path and no error.
C1_IdempotentReentry ==
  \A t \in dl_slots :
     (dl[t].pc = "done" /\ dl[t].existed) =>
        /\ dl[t].requests = 0
        /\ Len(dl[t].progress) = 1
        /\ dl[t].progress[1][1] = dl[t].progress[1][2]
        /\ Len(dl[t].ready) = 1
        /\ dl[t].ready[1].path = dl[t].installer_path
        /\ dl[t].error = None

\* C2: a run in which a progress callback of the transfer found the
\* cancelled flag set ends with the destination file absent, without a
\* sig_ready emission and without an error recorded.
C2_CancelSilent ==
  \A t \in dl_slots :
     (dl[t].pc = "done" /\ dl[t].polled) =>
        /\ dl[t].outcome = "cancelled"
        /\ ~InstallerPresent(t)
        /\ dl[t].ready = <<>>
        /\ dl[t].error = None

C2_Witness ==
  \E t \in dl_slots :
     /\ dl[t].pc = "done"
     /\ dl[t].polled
     /\ dl[t].blocknum > 0
     /\ dl[t].outcome = "cancelled"

C4_SweepPurges ==
  \A t \in dl_slots :
     dl[t].pc \notin {"start", "listdir", "sweep"} =>
        /\ dl[t].installer_path # None
        /\ \A n \in CacheNames :
              fs[n].kind = "dir" =>
                 n \in {__version__, dl[t].latest_release_version}

\* C5: sig_ready of the update check is emitted exactly once on success or
\* when startup is false, and not at all when startup is true and the
\* outcome is an error; a suppressed error leaves worker.error None, a
\* signalled one is stored in worker.error.
C5_StartupSuppression ==
  wu_runs > 0 =>
     IF worker.startup /\ wu_last.error_msg # None
     THEN wu_last.emits = 0 /\ worker.error = None
     ELSE wu_last.emits = 1 /\ worker.error = wu_last.error_msg

C5_Witness ==
  /\ wu_runs > 1
  /\ worker.startup
  /\ wu_last.error_msg # None
  /\ wu_last.emits = 0

\* C6: with a pre-supplied release list start() makes no network request
\* and its outcome depends on the version and the list only, not on the
\* remote source.
C6_NoFetchWhenSupplied ==
  (wu_runs > 0 /\ wu_last.before.releases # None) =>
     /\ wu_last.requests = 0
     /\ wu_last.cause \in {"none", "no_releases"}

\* C7: for a stable current version the check keeps the stable releases,
\* takes the last of them as latest_release and reports an update iff the
\* current version precedes it; catalog [a, b] with stable a < b and
\* current version a gives (true, b).
C7_StableUpdate ==
  (wu_runs > 0 /\ wu_last.cause = "none"
     /\ is_stable_version(worker.version)) =>
     LET stable == SelectSeq(worker.releases, is_stable_version)
     IN  /\ Len(stable) > 0
         /\ worker.latest_release = stable[Len(stable)]
         /\ worker.update_available =
               VersionLess(worker.version, stable[Len(stable)])
         /\ (/\ Len(worker.releases) = 2
             /\ worker.releases[1] = worker.version
             /\ is_stable_version(worker.releases[2])
             /\ VersionLess(worker.releases[1], worker.releases[2])) =>
               /\ worker.update_available = TRUE
               /\ worker.latest_release = worker.releases[2]

C7_Witness ==
  /\ wu_runs > 0
  /\ wu_last.cause = "none"
  /\ worker.version = V120
  /\ worker.releases = <<V120, V130>>
  /\ worker.update_available = TRUE
  /\ worker.latest_release = V130

\* C8: a current version with a development marker gives
\* update_available = false and latest_release = the version the worker was
\* constructed with, whatever the catalog holds.
C8_DevNoUpdate ==
  (wu_runs > 0 /\ wu_last.cause = "none"
     /\ Contains(worker.version, <<"d", "e", "v">>)) =>
     /\ worker.update_available = FALSE
     /\ worker.latest_release = worker.version

\* the message that start() leaves for a given failure of the request
ErrorFor(w, kind) ==
  StartBody(w, is_anaconda, [kind |-> kind, items |-> <<>>]).error_msg

\* C9: when the filter leaves no release the check fails with an outcome
\* that the caller can tell from the malformed-catalog and the
\* unreachable-catalog outcomes, and latest_release is not taken from the
\* empty list.
C9_NoReleasesDistinct ==
  (wu_runs > 0 /\ wu_last.cause = "no_releases") =>
     /\ wu_last.error_msg # None
     /\ wu_last.error_msg # ErrorFor(wu_last.before, "bad_json")
     /\ wu_last.error_msg # ErrorFor(wu_last.before, "URLError")
     /\ worker.latest_release = __version__

\* C10: for a pre-release (not development) current version the filtered
\* list is the catalog entries, in order, that are unstable or a substring
\* of the current version; a stable release that is no substring of it is
\* never latest_release.
C10_PreReleaseFilter ==
  (wu_runs > 0 /\ wu_last.cause = "none"
     /\ ~is_stable_version(worker.version)
     /\ ~Contains(worker.version, <<"d", "e", "v">>)) =>
     LET kept == SelectSeq(worker.releases,
                   LAMBDA r : HasLetter(r) \/ Contains(worker.version, r))
     IN  /\ Len(kept) > 0
         /\ worker.latest_release = kept[Len(kept)]
         /\ worker.update_available =
               VersionLess(worker.version, kept[Len(kept)])
         /\ is_stable_version(worker.latest_release) =>
               Contains(worker.version, worker.latest_release)
         /\ (worker.version = V120rc1 /\ worker.releases = <<V120rc1, V130>>) =>
               worker.latest_release = V120rc1 /\ worker.update_available = FALSE
         /\ (worker.version = V120rc1 /\ worker.releases = <<V120rc1, V120>>) =>
               worker.latest_release = V120 /\ worker.update_available = TRUE

C10_Witness ==
  /\ wu_runs > 0
  /\ wu_last.cause = "none"
  /\ worker.version = V120rc1
  /\ worker.releases = <<V120rc1, V120>>
  /\ worker.latest_release = V120
  /\ worker.update_available = TRUE

\* C11: a network failure at any point of the catalog fetch (urlopen or
\* reading the body) is reported as "no internet connectivity", never as
\* "could not retrieve information" or the generic message, and an HTTP
\* failure is never reported as "no internet connectivity".
C11_Classification ==
  wu_runs > 0 =>
     /\ wu_last.cause \in {"unreachable", "read_error"} =>
           wu_last.error_msg = MsgConnect
     /\ wu_last.cause = "http" => wu_last.error_msg # MsgConnect

\* C20: a run of the update check that ends in an error leaves
\* update_available false and latest_release the application's version,
\* whatever an earlier run on the same worker produced.
C20_ErrorNeverReportsUpdate ==
  (wu_runs > 0 /\ wu_last.error_msg # None) =>
     /\ worker.update_available = FALSE
     /\ worker.latest_release = __version__

C20_Witness ==
  /\ wu_runs > 1
  /\ wu_last.before.update_available = TRUE
  /\ wu_last.before.latest_release = V130
  /\ wu_last.error_msg # None
  /\ worker.update_available = FALSE

\* C12: the installer name is a function of the platform and of the
\* presence of numpy or pandas alone: Spyder_64bit_full.exe or
\* Spyder_64bit_lite.exe on Windows, Spyder.dmg or Spyder-Lite.dmg on macOS,
\* always one of these four, and a platform that is neither Windows nor
\* macOS is not given a macOS name.
C12_ArtifactName ==
  \A t \in dl_slots :
     dl[t].installer_path # None =>
        LET name == dl[t].installer_path[2]
            full == env.numpy \/ env.pandas
        IN  /\ dl[t].installer_path[1] = dl[t].latest_release_version
            /\ name \in {"Spyder_64bit_full.exe", "Spyder_64bit_lite.exe",
                         "Spyder.dmg", "Spyder-Lite.dmg"}
            /\ env.platform = "windows" =>
                  name = IF full THEN "Spyder_64bit_full.exe"
                                 ELSE "Spyder_64bit_lite.exe"
            /\ env.platform = "macos" =>
                  name = IF full THEN "Spyder.dmg" ELSE "Spyder-Lite.dmg"
            /\ env.platform \notin {"windows", "macos"} =>
                  name \notin {"Spyder.dmg", "Spyder-Lite.dmg"}

\* C14: the existence check finds a file at the destination only when that
\* file was transferred completely, whatever runs for the same release came
\* before (successful, failed in the middle of the transfer, cancelled).
C14_ExistingIsComplete ==
  \A t \in dl_slots :
     (dl[t].pc = "done" /\ dl[t].existed) =>
        fs[dl[t].latest_release_version].installer = "complete"

\* C15: sig_ready carries None as the path when the run ended in an error;
\* when it carries a path, the error is None and the file exists.
C15_ReadyPayload ==
  \A t \in dl_slots :
     \A i \in 1..Len(dl[t].ready) :
        /\ dl[t].ready[i].error # None => dl[t].ready[i].path = None
        /\ dl[t].ready[i].path # None =>
              /\ dl[t].ready[i].error = None
              /\ dl[t].error = None
              /\ InstallerPresent(t)

\* C16: once the cancelled flag of a worker is set, that worker emits no
\* further progress notification: every callback looks at the flag before
\* it emits, and the callback that finds it set ends the run instead.
C16_NoProgressAfterCancel ==
  [][\A t \in dl_slots :
        dl[t].cancelled =>
           \/ dl'[t].progress = dl[t].progress
           \/ dl'[t].pc = "start"]_vars

C16_Witness ==
  \E t \in dl_slots :
     /\ dl[t].pc = "done"
     /\ dl[t].cancelled
     /\ dl[t].polled
     /\ Len(dl[t].progress) > 0
     /\ dl[t].blocknum > Len(dl[t].progress) - 1

\* C18: a step of the sweep for release R changes neither the cache entry
\* named after the running version nor the entry named R, the installer
\* stored under R included.
C18_SweepFrame ==
  [][\A t \in dl_slots :
        (dl[t].pc = "sweep" /\ dl'[t] # dl[t]) =>
           /\ fs'[__version__] = fs[__version__]
           /\ fs'[dl[t].latest_release_version] =
                 fs[dl[t].latest_release_version]]_vars

C18_Witness ==
  \E t \in dl_slots :
     /\ dl[t].pc = "urlopen"
     /\ fs[__version__].kind = "file"
     /\ fs[StrayName].kind = "none"
     /\ fs[dl[t].latest_release_version].kind = "dir"

\* C19: a progress notification reports 0 while the total is unknown
\* (total <= 0); with a known total the reported values never decrease and
\* never exceed the total, the last, partly filled block included.
C19_ProgressBounded ==
  \A t \in dl_slots :
     \A i \in 1..Len(dl[t].progress) :
        /\ dl[t].progress[i][2] <= 0 => dl[t].progress[i][1] = 0
        /\ dl[t].progress[i][2] > 0 =>
              /\ dl[t].progress[i][1] <= dl[t].progress[i][2]
              /\ i > 1 => dl[t].progress[i - 1][1] <= dl[t].progress[i][1]

\* C13: of two workers that download different releases at the same time,
\* neither ends in an error because of the other's subdirectory or the
\* other's sweep, and neither sweep removes the other's directory or file.
C13_NoInterference ==
  \A t \in dl_slots : \A u \in dl_slots \ {t} :
     dl[t].latest_release_version # dl[u].latest_release_version =>
        /\ dl[t].blocked # None =>
              /\ dl[t].blocked # dl[u].latest_release_version
              /\ fs[dl[t].blocked].kind # "none"
        /\ dl[u].pc \in {"listdir", "sweep", "urlopen", "report", "read"} =>
              fs[dl[u].latest_release_version].kind = "dir"
        /\ dl[u].pc = "read" =>
              fs[dl[u].latest_release_version].installer # "absent"

\* C17: no failure leaves start() of the download as a raised exception,
\* whenever the cancellation is seen and also when the file to delete on
\* cancellation is no longer there; a run ends as a success, as a silent
\* cancellation, or with an error message stored in worker.error.
C17_NoEscape ==
  \A t \in dl_slots :
     dl[t].pc = "done" =>
        /\ dl[t].outcome \in {"success", "error", "cancelled"}
        /\ dl[t].outcome = "error" <=> dl[t].error # None

====
